---- MODULE Spec2Model ----
(***************************************************************************)
(* Model of the "ai" news pipeline of whatsnew: ingestion (crawler.py),    *)
(* the workflow of analyze() from categorize to commentary (analyzer.py),  *)
(* the run loop with its persisted set of sent items (main.py,             *)
(* test_once.py, storage.py), and the grouping of the full list in the     *)
(* page (mailer.py).                                                       *)
(*                                                                         *)
(* Texts are sequences of one-character strings, so that str.lower() and   *)
(* the substring test `kw in title` are computed, not assumed.  The        *)
(* category names of the source are written in ASCII:                      *)
(*   "Agent" = Agent zhuanxiang, "TechDepth" = jishu shendu,               *)
(*   "AWS" = AWS jujiao, "Industry" = hangye dongtai,                      *)
(*   "ChinesePicks" = zhongwen jingxuan, "Papers" = lunwen jingxuan.       *)
(***************************************************************************)
EXTENDS Integers, Sequences, FiniteSets, TLC

VARIABLES
    pc,          \* position of the run / of the workflow
    entry,       \* which entry point drives the run: "run_task" or "test_once"
    runs,        \* number of runs started
    file,        \* keys of data/sent_news.json on disk
    sent_items,  \* Storage.sent_items (keys) of the current process
    new_items,   \* run_task's new_items
    ai_analysis, \* run_task's ai_analysis: "None" or "present"
    news_items,  \* AnalysisState["news_items"]
    categorized, \* AnalysisState["categorized"]
    scored,      \* AnalysisState["scored"]
    response,    \* the answer to the call of the last of categorize, filter, score
    handed,      \* history: ids of the items of every list whose send succeeded
    top_news,    \* AnalysisState["top_news"]
    effects,     \* history: what the current run did to the outside world
    arg,         \* the argument of a function studied on its own
    ret,         \* what that function returned, "None" before the call
    answers      \* the answers to the calls of enhance_translate, one per batch

vars == <<pc, entry, runs, file, sent_items, new_items, ai_analysis,
          news_items, categorized, scored, response, handed,
          top_news, effects, arg, ret, answers>>

-----------------------------------------------------------------------------
(* Bounds *)

MaxItems == 2    \* longest list handed to analyze()
MaxResp == 2     \* most entries in a scoring response
MaxFeed == 2     \* most entries a feed serves in one fetch
MaxRuns == 2     \* runs in a behaviour

-----------------------------------------------------------------------------
(* Texts *)

UpperCase == <<"A","B","C","D","E","F","G","H","I","J","K","L","M",
               "N","O","P","Q","R","S","T","U","V","W","X","Y","Z">>
LowerCase == <<"a","b","c","d","e","f","g","h","i","j","k","l","m",
               "n","o","p","q","r","s","t","u","v","w","x","y","z">>

LowerChar(c) ==
    IF \E i \in 1..26 : UpperCase[i] = c
    THEN LowerCase[CHOOSE i \in 1..26 : UpperCase[i] = c]
    ELSE c

\* str.lower()
Lower(t) == [i \in 1..Len(t) |-> LowerChar(t[i])]

\* the Python test `k in t` on strings
Contains(t, k) ==
    \E i \in 1..(Len(t) - Len(k) + 1) : SubSeq(t, i, i + Len(k) - 1) = k

\* any(kw in t for kw in kws)
AnyIn(kws, t) == \E k \in kws : Contains(t, k)

-----------------------------------------------------------------------------
(* Tables of analyzer.py *)

CONTENT_CATEGORIES == {"Agent", "TechDepth", "AWS", "Industry"}

protected_sources ==
    { "Hacker News", "GitHub Trending", "GitHub Blog",
      "Dev.to", "Rust Blog", "Python Blog",
      "AWS News Blog", "AWS AI Blog", "AWS Machine Learning Blog",
      "AWS Compute Blog", "AWS Developer Blog",
      "LangChain Blog", "LlamaIndex Blog", "CrewAI Blog",
      "Semantic Kernel Blog", "Anthropic News" }

SOURCE_CATEGORY_MAP ==
    [s \in { "AWS News Blog", "AWS AI Blog", "AWS Machine Learning Blog",
             "AWS Compute Blog", "AWS Developer Blog",
             "CrewAI Blog", "Semantic Kernel Blog", "Anthropic News" } |->
        IF s \in {"CrewAI Blog", "Semantic Kernel Blog", "Anthropic News"}
        THEN "Agent" ELSE "AWS"]

TITLE_CATEGORY_KEYWORDS ==
    [c \in {"Agent", "TechDepth", "AWS"} |->
        CASE c = "Agent" ->
               { <<"a","g","e","n","t">>,
                 <<"a","g","e","n","t","i","c">>,
                 <<"m","u","l","t","i","-","a","g","e","n","t">>,
                 <<"m","c","p">>,
                 <<"t","o","o","l"," ","u","s","e">>,
                 <<"f","u","n","c","t","i","o","n"," ","c","a","l","l">> }
          [] c = "TechDepth" ->
               { <<"r","a","g">>,
                 <<"r","e","t","r","i","e","v","a","l">>,
                 <<"e","m","b","e","d","d","i","n","g">>,
                 <<"v","e","c","t","o","r">>,
                 <<"l","l","m">>,
                 <<"f","i","n","e","-","t","u","n">>,
                 <<"p","r","o","m","p","t">>,
                 <<"o","c","r">>,
                 <<"p","a","r","s","e">>,
                 <<"e","x","t","r","a","c","t">> }
          [] c = "AWS" ->
               { <<"a","w","s">>,
                 <<"b","e","d","r","o","c","k">>,
                 <<"s","a","g","e","m","a","k","e","r">>,
                 <<"a","m","a","z","o","n">> }]

\* the order in which _score_news tries the keyword groups
KeywordOrder == <<"Agent", "TechDepth", "AWS">>

\* the category every lookup falls back to
DefaultCategory == "Industry"

-----------------------------------------------------------------------------
(* JSON values as the model holds them *)

\* an id as a response writes it: a number (or a numeric string), or a
\* text int() rejects
IdNum(n) == [num |-> TRUE, v |-> n]
IdNaN == [num |-> FALSE, v |-> 0]

\* int(x): defined only on numeric ids, raises ValueError otherwise
IntRaises(x) == ~x.num
Int_(x) == x.v

\* a score as a response writes it
JInt(n) == [t |-> "int", v |-> n]
JNull == [t |-> "null", v |-> 0]

\* the score of the except branch of _score_news
DefaultScore == 5

\* Python indexing s[i] with negative indices
PyIndexOk(s, i) == -Len(s) <= i /\ i < Len(s)
PyIndex(s, i) == IF i >= 0 THEN s[i + 1] ELSE s[Len(s) + i + 1]

RECURSIVE SortedSeq(_)
\* sorted(S) for a set of integers
SortedSeq(S) ==
    IF S = {} THEN <<>>
    ELSE LET m == CHOOSE x \in S : \A y \in S : x <= y
         IN <<m>> \o SortedSeq(S \ {m})

Range(s) == {s[i] : i \in 1..Len(s)}

SeqsUpTo(S, n) == UNION {[1..k -> S] : k \in 0..n}

-----------------------------------------------------------------------------
(* Stage 1: _categorize_news *)

\* result of a stage: either it raised, or it returned a value
Raised == [raised |-> TRUE]
Returned(v) == [raised |-> FALSE, value |-> v]

\* categorized is held as the map from the listed id to the category that
\* lists it (the JSON {category: [ids]} read id by id)
CategorizeFallback(items) ==
    [k \in {IdNum(i) : i \in 0..(Len(items) - 1)} |-> "Industry"]

CategorizeNews(items, resp) ==
    CASE resp.kind = "error" -> Raised
      [] resp.kind \in {"text", "invalid"} -> Returned(CategorizeFallback(items))
      [] resp.kind = "json" -> Returned(resp.body)

-----------------------------------------------------------------------------
(* Stage 2: _filter_news *)

ItemsToCheck(items) ==
    {i \in 0..(Len(items) - 1) : items[i + 1].source \notin protected_sources}
ProtectedItems(items) ==
    {i \in 0..(Len(items) - 1) : items[i + 1].source \in protected_sources}

\* relevant_ids as the try block leaves it
RelevantIds(items, resp) ==
    CASE resp.kind \in {"error", "invalid"} -> ItemsToCheck(items)
      [] resp.kind = "text" -> ItemsToCheck(items)
      [] resp.kind = "json" ->
           IF "relevant_ids" \in DOMAIN resp.body
           THEN IF \E x \in resp.body.relevant_ids : IntRaises(x)
                THEN ItemsToCheck(items)
                ELSE {Int_(x) : x \in resp.body.relevant_ids}
           ELSE {}

\* keep_ids that forgets the protected items
KeepIdsRelevantOnly(items, resp) == RelevantIds(items, resp)

\* keep_ids = set(protected_items) | relevant_ids
KeepIds(items, resp) == ProtectedItems(items) \cup RelevantIds(items, resp)

FilterNews(items, resp) ==
    IF ItemsToCheck(items) = {} THEN Returned(items)
    ELSE LET keep_ids == KeepIds(items, resp)
             order == SortedSeq(keep_ids)
         IN IF \E i \in keep_ids : ~PyIndexOk(items, i)
            THEN Raised
            ELSE Returned([j \in 1..Len(order) |-> PyIndex(items, order[j])])

-----------------------------------------------------------------------------
(* Stage 3: _score_news *)

\* matched_category of the keyword loop, "None" when no group hits
MatchedCategory(title) ==
    LET title_lower == Lower(title)
        hits == {j \in 1..Len(KeywordOrder) :
                    AnyIn(TITLE_CATEGORY_KEYWORDS[KeywordOrder[j]], title_lower)}
    IN IF hits = {} THEN "None"
       ELSE KeywordOrder[CHOOSE j \in hits : \A k \in hits : j <= k]

\* int(id_str) of the first loop raises on a key that is not a number
IdToCategoryRaises(cat) == \E k \in DOMAIN cat : IntRaises(k)

\* the category the override loop writes for index i, "None" when it
\* leaves the entry alone
OverrideCategory(item) ==
    IF item.source \in DOMAIN SOURCE_CATEGORY_MAP
    THEN SOURCE_CATEGORY_MAP[item.source]
    ELSE MatchedCategory(item.title)

\* id_to_category after both loops, as a map from int to category
IdToCategory(items, cat) ==
    LET listed == {Int_(k) : k \in DOMAIN cat}
        forced == {i \in 0..(Len(items) - 1) : OverrideCategory(items[i + 1]) /= "None"}
    IN [i \in listed \cup forced |->
          IF i \in forced THEN OverrideCategory(items[i + 1]) ELSE cat[IdNum(i)]]

\* id_to_category.get(i, default)
CategoryOf(id_to_category, i) ==
    IF i \in DOMAIN id_to_category THEN id_to_category[i] ELSE DefaultCategory

\* one entry of the response makes the merge loop raise
EntryRaises(e, items) ==
    \/ "id" \notin DOMAIN e
    \/ IntRaises(e.id)
    \/ /\ Int_(e.id) < Len(items)
       /\ \/ ~PyIndexOk(items, Int_(e.id))
          \/ "score" \notin DOMAIN e

\* the item the merge loop appends for an entry
ScoredCopy(item, e, id_to_category) ==
    [id |-> item.id, title |-> item.title, summary |-> item.summary,
     link |-> item.link, source |-> item.source,
     ai_score |-> e.score,
     ai_reason |-> IF "reason" \in DOMAIN e THEN e.reason ELSE "",
     category |-> CategoryOf(id_to_category, Int_(e.id))]

\* the except branch: every item with the default score
ScoreFallback(items, id_to_category) ==
    [j \in 1..Len(items) |->
        [id |-> items[j].id, title |-> items[j].title, summary |-> items[j].summary,
         link |-> items[j].link, source |-> items[j].source,
         ai_score |-> JInt(DefaultScore), ai_reason |-> "",
         category |-> CategoryOf(id_to_category, j - 1)]]

\* the try branch on a parsed array: entries whose id is below len(news_items)
ScoreMerge(items, body, id_to_category) ==
    LET used == SelectSeq(body, LAMBDA e : Int_(e.id) < Len(items))
    IN [j \in 1..Len(used) |->
          ScoredCopy(PyIndex(items, Int_(used[j].id)), used[j], id_to_category)]

\* the try/except of _score_news once id_to_category is built
ScoreWith(items, id_to_category, resp) ==
    IF resp.kind \in {"text", "invalid"}
    THEN ScoreFallback(items, id_to_category)
    ELSE IF \E j \in 1..Len(resp.body) : EntryRaises(resp.body[j], items)
         THEN ScoreFallback(items, id_to_category)
         ELSE ScoreMerge(items, resp.body, id_to_category)

ScoreNews(items, cat, resp) ==
    IF IdToCategoryRaises(cat) \/ resp.kind = "error" THEN Raised
    ELSE Returned(ScoreWith(items, IdToCategory(items, cat), resp))

-----------------------------------------------------------------------------
(* Items and the answers of the text-generation call *)

\* Crawler._generate_id: md5 of the link, modelled by its value on the
\* links of the model (first four hex digits of the digest)
_generate_id(text) ==
    CASE text = "u1" -> "c4ca"
      [] text = "u2" -> "c81e"
      [] text = "u3" -> "eccb"
      [] text = "u4" -> "a87f"
      [] text = "u5" -> "e4da"
      [] text = "u6" -> "1679"
      [] OTHER -> "d41d"

TitleAgents == <<"A","g","e","n","t","s">>
TitleNews == <<"N","e","w","s">>
TitleNotes == <<"N","o","t","e","s">>
TitleStorage == <<"S","t","o","r","a","g","e">>
SummaryText == <<"s","u","m">>

\* the dict fetch_rss builds for an entry
MkItem(link, title, summary, source) ==
    [id |-> _generate_id(link), title |-> title, summary |-> summary,
     link |-> link, source |-> source]

ItemA == MkItem("u1", TitleAgents, SummaryText, "AWS News Blog")
ItemB == MkItem("u2", TitleNews, SummaryText, "TechCrunch")
ItemC == MkItem("u3", TitleNotes, SummaryText, "TechCrunch")
ItemD == MkItem("u4", TitleStorage, SummaryText, "LangChain Blog")

\* the lists analyze() is started on
AnalyzeItems == {ItemA, ItemB, ItemC, ItemD}
AnalyzeLists == SeqsUpTo(AnalyzeItems, MaxItems) \ {<<>>}

NoResponse == [kind |-> "none"]
\* "error": the call raised; "text": no bracket of the expected kind;
\* "invalid": brackets whose content json.loads rejects
FailKinds == {[kind |-> "error"], [kind |-> "text"], [kind |-> "invalid"]}

RespCats == {"TechDepth", "Other"}
CatKeys == {IdNum(i) : i \in 0..(MaxItems - 1)}
CatBodies ==
    UNION {[D -> RespCats] : D \in SUBSET CatKeys}
      \cup {[k \in {IdNaN} |-> "Other"]}
CatResponses == FailKinds \cup {[kind |-> "json", body |-> b] : b \in CatBodies}

FilterIds == {IdNum(i) : i \in (-1)..MaxItems} \cup {IdNaN}
FilterBodies ==
    {[relevant_ids |-> S] : S \in SUBSET FilterIds}
      \cup {[filtered_ids |-> {}]}
FilterResponses == FailKinds \cup {[kind |-> "json", body |-> b] : b \in FilterBodies}

ScoreIds == {IdNum(i) : i \in (-1)..MaxItems}
\* entries with every key and a score in range
ValidEntries == {[id |-> i, score |-> JInt(8), reason |-> "why"] : i \in ScoreIds}
ScoreVals == {JInt(8), JInt(11), JNull}
ScoreEntries ==
    {[id |-> i, score |-> v, reason |-> "why"] : i \in ScoreIds \cup {IdNaN}, v \in ScoreVals}
      \cup {[id |-> i, score |-> JInt(8)] : i \in {IdNum(0)}}
      \cup {[id |-> i, reason |-> "why"] : i \in {IdNum(0), IdNum(MaxItems)}}
      \cup {[score |-> JInt(8), reason |-> "why"]}
\* answers of the scoring call: well-formed ones, and all of them
ValidScoreResponses ==
    {[kind |-> "text"]}
      \cup {[kind |-> "json", body |-> b] : b \in SeqsUpTo(ValidEntries, MaxResp)}
ScoreResponses ==
    FailKinds \cup {[kind |-> "json", body |-> b] : b \in SeqsUpTo(ScoreEntries, MaxResp)}

-----------------------------------------------------------------------------
(* The workflow of analyze(): categorize -> filter -> score *)

callVars == <<arg, ret, answers>>

runVars == <<entry, runs, file, sent_items, ai_analysis, handed, effects, callVars>>

\* analyze(news_items): the initial state of the workflow
InitAnalyze ==
    /\ pc = "categorize"
    /\ new_items \in AnalyzeLists
    /\ news_items = new_items
    /\ categorized = <<>>
    /\ scored = <<>>
    /\ response = NoResponse
    /\ entry = "test_once"
    /\ runs = 1
    /\ file = {}
    /\ sent_items = {}
    /\ ai_analysis = "None"
    /\ handed = {}
    /\ top_news = <<>>
    /\ effects = {}
    /\ arg = <<>>
    /\ ret = "None"
    /\ answers = <<>>

Categorize ==
    /\ pc = "categorize"
    /\ \E r \in CatResponses :
         LET res == CategorizeNews(news_items, r)
         IN /\ response' = r
            /\ IF res.raised
               THEN pc' = "raised" /\ UNCHANGED categorized
               ELSE pc' = "filter" /\ categorized' = res.value
    /\ UNCHANGED <<new_items, news_items, scored, top_news, runVars>>

Filter ==
    /\ pc = "filter"
    /\ \E r \in FilterResponses :
         LET res == FilterNews(news_items, r)
         IN /\ response' = IF ItemsToCheck(news_items) = {} THEN NoResponse ELSE r
            /\ IF res.raised
               THEN pc' = "raised" /\ UNCHANGED news_items
               ELSE pc' = "score" /\ news_items' = res.value
    /\ UNCHANGED <<new_items, categorized, scored, top_news, runVars>>

Score(R) ==
    /\ pc = "score"
    /\ LET id_to_category == IdToCategory(news_items, categorized)
       IN \E r \in R :
            /\ response' = r
            /\ IF IdToCategoryRaises(categorized) \/ r.kind = "error"
               THEN pc' = "raised" /\ UNCHANGED scored
               ELSE /\ pc' = "enhance_translate"
                    /\ scored' = ScoreWith(news_items, id_to_category, r)
    /\ UNCHANGED <<new_items, news_items, categorized, top_news, runVars>>

NextAnalyze == Categorize \/ Filter \/ Score(ValidScoreResponses)

SpecAnalyze == InitAnalyze /\ [][NextAnalyze]_vars

\* the scorer alone, on any list the filter can leave and the default
\* classification
InitScore ==
    /\ pc = "score"
    /\ new_items \in AnalyzeLists
    /\ news_items = new_items
    /\ categorized = CategorizeFallback(news_items)
    /\ scored = <<>>
    /\ response = NoResponse
    /\ entry = "test_once"
    /\ runs = 1
    /\ file = {}
    /\ sent_items = {}
    /\ ai_analysis = "None"
    /\ handed = {}
    /\ top_news = <<>>
    /\ effects = {}
    /\ arg = <<>>
    /\ ret = "None"
    /\ answers = <<>>

NextScore == Score(ScoreResponses)

SpecScore == InitScore /\ [][NextScore]_vars

\* the relevance filter alone, on any list, after a classification whose
\* answer did not parse
InitFilter ==
    /\ pc = "filter"
    /\ new_items \in AnalyzeLists
    /\ news_items = new_items
    /\ categorized = CategorizeFallback(news_items)
    /\ scored = <<>>
    /\ response = NoResponse
    /\ entry = "test_once"
    /\ runs = 1
    /\ file = {}
    /\ sent_items = {}
    /\ ai_analysis = "None"
    /\ handed = {}
    /\ top_news = <<>>
    /\ effects = {}
    /\ arg = <<>>
    /\ ret = "None"
    /\ answers = <<>>

NextFilter == Filter

SpecFilter == InitFilter /\ [][NextFilter]_vars

-----------------------------------------------------------------------------
(* Ingestion: crawler.py *)

\* the values Config('config.yaml') yields in the runs of the model
config ==
    [max_items_per_source |-> 2, max_days |-> 2, ai_min_news_for_analysis |-> 1,
     hub_enabled |-> TRUE]

max_items == config.max_items_per_source
max_days == config.max_days

\* what the feeds can serve: link, title, summary and age in days
RawEntries ==
    { [link |-> "u1", title |-> TitleAgents, summary |-> SummaryText, age |-> 0],
      [link |-> "u2", title |-> TitleNews, summary |-> SummaryText, age |-> 0],
      [link |-> "u2", title |-> TitleNews, summary |-> SummaryText, age |-> 3] }

\* config.sources: the enabled rss sources
sources == <<"AWS News Blog", "TechCrunch">>

Min(a, b) == IF a < b THEN a ELSE b

\* Storage.is_sent
is_sent(item_id, sent) == item_id \in sent

\* fetch_rss: the first max_items entries, among the first 3 * max_items,
\* that are recent enough and not yet sent
fetch_rss(entries, source_name, sent) ==
    LET seen == SubSeq(entries, 1, Min(Len(entries), max_items * 3))
        fresh == SelectSeq(seen, LAMBDA e :
                    e.age <= max_days /\ ~is_sent(_generate_id(e.link), sent))
        taken == SubSeq(fresh, 1, Min(Len(fresh), max_items))
    IN [j \in 1..Len(taken) |->
          MkItem(taken[j].link, taken[j].title, taken[j].summary, source_name)]

newsletter_keywords ==
    { <<"n","e","w","s","l","e","t","t","e","r">>,
      <<"w","e","e","k","l","y">>,
      <<"r","o","u","n","d","u","p">>,
      <<"d","i","g","e","s","t">>,
      <<"r","e","c","a","p">> }

IsNewsletter(item) == AnyIn(newsletter_keywords, Lower(item.title))

\* a dedup that keeps the last newsletter of each source
DedupKeepLast(items) ==
    LET idx == 1..Len(items)
        lastNl == {i \in idx : /\ IsNewsletter(items[i])
                                /\ \A k \in (i + 1)..Len(items) :
                                       IsNewsletter(items[k]) => items[k].source /= items[i].source}
        kept == SortedSeq(lastNl)
    IN SelectSeq(items, LAMBDA it : ~IsNewsletter(it))
         \o [j \in 1..Len(kept) |-> items[kept[j]]]

\* _dedup_newsletters: the other items, then the first newsletter of each
\* source in the order the sources first show one
_dedup_newsletters(items) ==
    LET idx == 1..Len(items)
        firstNl == {i \in idx : /\ IsNewsletter(items[i])
                                 /\ \A k \in 1..(i - 1) :
                                        IsNewsletter(items[k]) => items[k].source /= items[i].source}
        kept == SortedSeq(firstNl)
    IN SelectSeq(items, LAMBDA it : ~IsNewsletter(it))
         \o [j \in 1..Len(kept) |-> items[kept[j]]]

corporate_keywords ==
    { <<"a","p","p","o","i","n","t","s">>,
      <<"a","p","p","o","i","n","t","e","d">>,
      <<"h","i","r","e">>,
      <<"h","i","r","i","n","g">>,
      <<"j","o","i","n","s">>,
      <<"o","f","f","i","c","e"," ","o","p","e","n","i","n","g">>,
      <<"h","e","a","d","q","u","a","r","t","e","r","s">>,
      <<"e","x","p","a","n","s","i","o","n">>,
      <<"f","u","n","d","i","n","g">>,
      <<"v","a","l","u","a","t","i","o","n">>,
      <<"s","e","r","i","e","s"," ","a">>,
      <<"s","e","r","i","e","s"," ","b">>,
      <<"s","e","r","i","e","s"," ","c">>,
      <<"s","e","r","i","e","s"," ","d">>,
      <<"s","e","r","i","e","s"," ","e">>,
      <<"s","e","r","i","e","s"," ","f">>,
      <<"c","o","m","p","l","i","a","n","c","e">>,
      <<"r","e","g","u","l","a","t","o","r","y">>,
      <<"p","o","l","i","c","y"," ","r","e","s","p","o","n","s","e">>,
      <<"m","a","n","a","g","i","n","g"," ","d","i","r","e","c","t","o","r">>,
      <<"c","e","o">>,
      <<"c","t","o">>,
      <<"c","f","o">> }

low_value_patterns ==
    { <<"q","u","o","t","i","n","g"," ">>,
      <<"v","i","a"," ","@">>,
      <<"r","t"," ","@">> }

\* len(t.split()): the number of maximal runs of non-blank characters
WordCount(t) ==
    Cardinality({i \in 1..Len(t) : t[i] /= " " /\ (i = 1 \/ t[i - 1] = " ")})

\* a test that knows the corporate keywords only
IsJunkCorporateOnly(item) ==
    AnyIn(corporate_keywords, Lower(item.title) \o <<" ">> \o Lower(item.summary))

\* `is_corporate or is_low_value or is_bare_link`
IsJunk(item) ==
    LET title_lower == Lower(item.title)
        text == title_lower \o <<" ">> \o Lower(item.summary)
        is_corporate == AnyIn(corporate_keywords, text)
        is_low_value == AnyIn(low_value_patterns, title_lower)
        is_bare_link == /\ Contains(item.title, <<"/">>)
                        /\ WordCount(item.title) <= 2
                        /\ item.title = item.summary
    IN is_corporate \/ is_low_value \/ is_bare_link

_filter_corporate_news(items) == SelectSeq(items, LAMBDA it : ~IsJunk(it))

RECURSIVE Extend(_, _, _)
\* the loop of fetch_all over the sources, feeds[k] being what source k serves
Extend(feeds, k, sent) ==
    IF k > Len(sources) THEN <<>>
    ELSE fetch_rss(feeds[k], sources[k], sent) \o Extend(feeds, k + 1, sent)

fetch_all(feeds, sent) ==
    _filter_corporate_news(_dedup_newsletters(Extend(feeds, 1, sent)))

Feeds == [1..Len(sources) -> SeqsUpTo(RawEntries, MaxFeed)]

-----------------------------------------------------------------------------
(* A run: run_task of main.py, and the script test_once.py *)

min_news == config.ai_min_news_for_analysis

\* the parameters Storage.mark_sent accepts besides self
mark_sent_params == {"item_id", "title"}

\* the keyword arguments each entry point passes to mark_sent
MarkSentKwargs(e) ==
    IF e = "run_task" THEN {"link", "source", "category"} ELSE {}

\* a call with a keyword the function does not declare raises TypeError
CallRaises(kwargs, params) == ~(kwargs \subseteq params)

\* a marking loop that marks whatever the feeds served as well
MarkEverythingServed(sent, items) ==
    sent \cup {items[j].id : j \in 1..Len(items)}
         \cup {_generate_id(e.link) : e \in RawEntries}

\* Storage.mark_sent over the whole list, each call followed by save()
mark_sent(sent, items) == sent \cup {items[j].id : j \in 1..Len(items)}

\* the answers drawn in a run; the stage properties draw from the larger sets
RunCatResponses == {[kind |-> "error"], [kind |-> "text"]}
RunFilterResponses ==
    {[kind |-> "text"]}
      \cup {[kind |-> "json", body |-> [relevant_ids |-> S]] :
               S \in SUBSET {IdNum(0), IdNum(1), IdNum(2 * max_items)}}
RunScoreResponses ==
    {[kind |-> "text"]}
      \cup {[kind |-> "json", body |-> b] :
               b \in SeqsUpTo({e \in ValidEntries : e.id \in {IdNum(0), IdNum(1)}}, 1)}

\* analyze(): the three stages in workflow order
analyze(items, rc, rf, rs) ==
    LET c == CategorizeNews(items, rc)
    IN IF c.raised THEN Raised
       ELSE LET f == FilterNews(items, rf)
            IN IF f.raised THEN Raised
               ELSE LET sc == ScoreNews(f.value, c.value, rs)
                    IN IF sc.raised THEN Raised
                       ELSE Returned([news_items |-> f.value,
                                      categorized |-> c.value,
                                      translated_items |-> sc.value])

analysisVars == <<news_items, categorized, scored, response, top_news>>

Init ==
    /\ pc = "idle"
    /\ entry \in {"run_task", "test_once"}
    /\ runs = 0
    /\ file = {}
    /\ sent_items = {}
    /\ new_items = <<>>
    /\ ai_analysis = "None"
    /\ news_items = <<>>
    /\ categorized = <<>>
    /\ scored = <<>>
    /\ response = NoResponse
    /\ handed = {}
    /\ top_news = <<>>
    /\ effects = {}
    /\ arg = <<>>
    /\ ret = "None"
    /\ answers = <<>>

\* Storage(): load() reads the file, or yields {} when reading fails
StartRun ==
    /\ pc \in {"idle", "done", "crashed"}
    /\ runs < MaxRuns
    /\ runs' = runs + 1
    /\ \E readable \in BOOLEAN : sent_items' = IF readable THEN file ELSE {}
    /\ new_items' = <<>>
    /\ ai_analysis' = "None"
    /\ news_items' = <<>>
    /\ categorized' = <<>>
    /\ scored' = <<>>
    /\ response' = NoResponse
    /\ top_news' = <<>>
    /\ effects' = {}
    /\ pc' = "fetch"
    /\ UNCHANGED <<entry, file, handed, callVars>>

FetchAll ==
    /\ pc = "fetch"
    /\ \E feeds \in Feeds : new_items' = fetch_all(feeds, sent_items)
    /\ pc' = "analyze"
    /\ UNCHANGED <<entry, runs, file, sent_items, ai_analysis, analysisVars, handed,
                   effects, callVars>>

\* the try block around analyzer.analyze(new_items)
Analyze ==
    /\ pc = "analyze"
    /\ new_items /= <<>>
    /\ Len(new_items) >= min_news
    /\ \E rc \in RunCatResponses, rf \in RunFilterResponses, rs \in RunScoreResponses :
         LET res == analyze(new_items, rc, rf, rs)
         IN IF res.raised
            THEN /\ ai_analysis' = "None"
                 /\ effects' = effects \cup {"analysis_failed"}
                 /\ UNCHANGED <<new_items, analysisVars>>
            ELSE /\ ai_analysis' = "present"
                 /\ UNCHANGED effects
                 /\ news_items' = res.value.news_items
                 /\ categorized' = res.value.categorized
                 /\ scored' = res.value.translated_items
                 /\ response' = rs
                 /\ UNCHANGED top_news
                 /\ new_items' = IF res.value.translated_items /= <<>>
                                  THEN res.value.translated_items
                                  ELSE new_items
    /\ pc' = "send"
    /\ UNCHANGED <<entry, runs, file, sent_items, handed, callVars>>

\* ai.enabled is false, or there are fewer than min_news items
SkipAnalysis ==
    /\ pc = "analyze"
    /\ pc' = "send"
    /\ UNCHANGED <<entry, runs, file, sent_items, new_items, ai_analysis,
                   analysisVars, handed, effects, callVars>>

\* email.enabled, which only test_once.py reads
EmailEnabled(e) == IF e = "test_once" THEN BOOLEAN ELSE {TRUE}

\* what follows the marking loop: the archive and the index
AfterMark(e) ==
    (IF e = "test_once" THEN {"save_to_s3"} ELSE {})
        \cup (IF config.hub_enabled THEN {"index_to_hub"} ELSE {})

\* a send that goes on to the marking loop even when mailer.send failed
SendThenMarkAlways ==
    /\ pc = "send"
    /\ IF new_items = <<>>
       THEN pc' = "done" /\ UNCHANGED <<handed, effects>>
       ELSE \E email_enabled \in EmailEnabled(entry), ok \in BOOLEAN :
              IF ~email_enabled
              THEN pc' = "done" /\ UNCHANGED <<handed, effects>>
              ELSE IF ok
                   THEN /\ pc' = "mark"
                        /\ effects' = effects \cup {"send_ok"}
                        /\ handed' = handed \cup {new_items[j].id : j \in 1..Len(new_items)}
                   ELSE /\ pc' = "mark"
                        /\ effects' = effects \cup {"send_failed"}
                        /\ UNCHANGED handed
    /\ UNCHANGED <<entry, runs, file, sent_items, new_items, ai_analysis,
                   analysisVars, callVars>>

\* a send without the test `if new_items`
SendUnguarded ==
    /\ pc = "send"
    /\ \E email_enabled \in EmailEnabled(entry), ok \in BOOLEAN :
         IF ~email_enabled
         THEN pc' = "done" /\ UNCHANGED <<handed, effects>>
         ELSE IF ok
              THEN /\ pc' = "mark"
                   /\ effects' = effects \cup {"send_ok"}
                   /\ handed' = handed \cup {new_items[j].id : j \in 1..Len(new_items)}
              ELSE /\ pc' = "done"
                   /\ effects' = effects \cup {"send_failed"}
                   /\ UNCHANGED handed
    /\ UNCHANGED <<entry, runs, file, sent_items, new_items, ai_analysis,
                   analysisVars, callVars>>

\* format_news_email and mailer.send, or "no new content"
Send ==
    /\ pc = "send"
    /\ IF new_items = <<>>
       THEN pc' = "done" /\ UNCHANGED <<handed, effects>>
       ELSE \E email_enabled \in EmailEnabled(entry), ok \in BOOLEAN :
              IF ~email_enabled
              THEN pc' = "done" /\ UNCHANGED <<handed, effects>>
              ELSE IF ok
                   THEN /\ pc' = "mark"
                        /\ effects' = effects \cup {"send_ok"}
                        /\ handed' = handed \cup {new_items[j].id : j \in 1..Len(new_items)}
                   ELSE /\ pc' = "done"
                        /\ effects' = effects \cup {"send_failed"}
                        /\ UNCHANGED handed
    /\ UNCHANGED <<entry, runs, file, sent_items, new_items, ai_analysis,
                   analysisVars, callVars>>

\* the loop `for item in new_items: storage.mark_sent(...)`, then the
\* archive and the index
MarkSent ==
    /\ pc = "mark"
    /\ IF CallRaises(MarkSentKwargs(entry), mark_sent_params)
       THEN pc' = "crashed" /\ UNCHANGED <<sent_items, file, effects>>
       ELSE /\ sent_items' = mark_sent(sent_items, new_items)
            /\ file' = sent_items'
            /\ effects' = effects \cup {"mark_sent"} \cup AfterMark(entry)
            /\ pc' = "done"
    /\ UNCHANGED <<entry, runs, new_items, ai_analysis, analysisVars, handed, callVars>>

Next == StartRun \/ FetchAll \/ Analyze \/ SkipAnalysis \/ Send \/ MarkSent

Spec == Init /\ [][Next]_vars

-----------------------------------------------------------------------------
(* The rest of the workflow: enhance_translate ... commentary *)

\* the length of the slice sorted_news[:5]
TopCount == 5

RECURSIVE SortedByScore(_)
\* sorted(scored, key=lambda x: x.get('ai_score', 0), reverse=True): the
\* sort is stable, so equal scores keep the order of the list
SortedByScore(items) ==
    IF items = <<>> THEN <<>>
    ELSE LET m == CHOOSE i \in 1..Len(items) :
                    /\ \A k \in 1..Len(items) : items[k].ai_score.v <= items[i].ai_score.v
                    /\ \A k \in 1..(i - 1) : items[k].ai_score.v < items[i].ai_score.v
             rest == [k \in 1..(Len(items) - 1) |->
                         IF k < m THEN items[k] ELSE items[k + 1]]
         IN <<items[m]>> \o SortedByScore(rest)

\* the first TopCount items in the order of the list, unsorted
TopNewsUnsorted(items) == SubSeq(items, 1, Min(TopCount, Len(items)))

\* top_news = sorted_news[:5]
TopNews(items) == SubSeq(SortedByScore(items), 1, Min(TopCount, Len(items)))

\* _summarize raises when the call does, and when a score is None: sorted()
\* and the sum of avg_score cannot order or add None
SummarizeRaises(items, call_fails) ==
    call_fails \/ \E j \in 1..Len(items) : items[j].ai_score.t = "null"

\* a node that reads the state and writes keys the model does not hold;
\* its own call is inside a try block
Node(from, to) ==
    /\ pc = from
    /\ pc' = to
    /\ UNCHANGED <<new_items, news_items, categorized, scored, response, top_news,
                   runVars>>

\* the size of a batch of _enhance_and_translate
batch_size == 10
\* `len(summary) < 50`: the summary is short enough to be replaced
ShortSummary == 50

\* d[k] = v on a dict
SetKey(item, k, v) ==
    [f \in DOMAIN item \cup {k} |-> IF f = k THEN v ELSE item[f]]

\* item.get(k) is truthy
Truthy(e, k) == k \in DOMAIN e /\ e[k] /= <<>>

\* an entry of a parsed answer makes the loop over the results raise:
\* no id, an id int() rejects, or an index below -len that is written to
EnhEntryRaises(e, n) ==
    \/ "id" \notin DOMAIN e
    \/ IntRaises(e.id)
    \/ /\ Int_(e.id) < -n
       /\ (Truthy(e, "title_zh") \/ Truthy(e, "summary_zh"))

\* processed_news[idx] after the assignments an entry makes
EnhApply(item, e) ==
    LET a == IF Truthy(e, "title_zh") THEN SetKey(item, "title_zh", e.title_zh) ELSE item
        b == IF Truthy(e, "summary_zh") THEN SetKey(a, "summary_zh", e.summary_zh) ELSE a
    IN IF Truthy(e, "summary_zh") /\ Len(item.summary) < ShortSummary
       THEN SetKey(b, "summary", e.summary_zh)
       ELSE b

RECURSIVE EnhLoop(_, _)
\* the loop over the results, each entry under `if idx < len(processed_news)`;
\* an entry that raises ends the loop, and what the entries before it wrote
\* stays
EnhLoop(processed, body) ==
    IF body = <<>> THEN processed
    ELSE IF EnhEntryRaises(Head(body), Len(processed)) THEN processed
         ELSE LET e == Head(body)
                  idx == Int_(e.id)
                  pos == IF idx >= 0 THEN idx + 1 ELSE Len(processed) + idx + 1
                  after == IF idx < Len(processed)
                           THEN [j \in 1..Len(processed) |->
                                   IF j = pos THEN EnhApply(processed[j], e)
                                   ELSE processed[j]]
                           ELSE processed
              IN EnhLoop(after, Tail(body))

\* the try block of one batch
EnhBatch(processed, resp) ==
    IF resp.kind = "json" THEN EnhLoop(processed, resp.body) ELSE processed

\* range(0, len(to_process), batch_size) has this many elements
NumBatches(n) == (n + batch_size - 1) \div batch_size

RECURSIVE EnhanceWith(_, _)
\* the list _enhance_and_translate returns on the answers rs, one per batch;
\* an empty list has no batch and is returned as it is
EnhanceWith(processed, rs) ==
    IF rs = <<>> THEN processed
    ELSE EnhanceWith(EnhBatch(processed, Head(rs)), Tail(rs))

\* returns the items in the same order, with the translations the answers
\* gave
EnhanceAndTranslate(R) ==
    /\ pc = "enhance_translate"
    /\ \E rs \in [1..NumBatches(Len(scored)) -> R] :
         /\ answers' = rs
         /\ scored' = EnhanceWith(scored, rs)
    /\ pc' = "label_and_oneliner"
    /\ UNCHANGED <<new_items, news_items, categorized, response, top_news,
                   entry, runs, file, sent_items, ai_analysis, handed, effects,
                   arg, ret>>

\* translated texts as an answer gives them
ZhTitle == <<"U+6807", "U+9898">>
ZhSummary == <<"U+6458", "U+8981">>

LabelAndOneliner == Node("label_and_oneliner", "find_trends")

\* the call of _find_trends is outside its try block
FindTrends ==
    /\ pc = "find_trends"
    /\ \E call_fails \in BOOLEAN :
         pc' = IF scored /= <<>> /\ call_fails THEN "raised" ELSE "cluster_news"
    /\ UNCHANGED <<new_items, news_items, categorized, scored, response, top_news,
                   runVars>>

ClusterNews == Node("cluster_news", "analyze_papers")

AnalyzePapers == Node("analyze_papers", "summarize")

Summarize ==
    /\ pc = "summarize"
    /\ \E call_fails \in BOOLEAN :
         IF SummarizeRaises(scored, call_fails)
         THEN pc' = "raised" /\ UNCHANGED top_news
         ELSE pc' = "spotlight" /\ top_news' = TopNews(scored)
    /\ UNCHANGED <<new_items, news_items, categorized, scored, response, runVars>>

GenerateSpotlight == Node("spotlight", "action_items")

GenerateActionItems == Node("action_items", "commentary")

GenerateCommentary == Node("commentary", "END")

\* answers of the scoring call that name items of the list, in any order
RankScores == {JInt(7), JInt(9), JNull}
RankEntries ==
    {[id |-> IdNum(i), score |-> v, reason |-> "why"] :
        i \in 0..(MaxItems - 1), v \in RankScores}
RankResponses ==
    {[kind |-> "text"]}
      \cup {[kind |-> "json", body |-> b] : b \in SeqsUpTo(RankEntries, MaxResp)}

\* the workflow from the scorer to its end
NextWorkflow ==
    \/ Score(RankResponses)
    \/ EnhanceAndTranslate(
          { [kind |-> "error"],
            [kind |-> "json",
             body |-> <<[id |-> IdNum(0), title_zh |-> ZhTitle,
                         summary_zh |-> ZhSummary]>>] })
    \/ LabelAndOneliner
    \/ FindTrends
    \/ ClusterNews
    \/ AnalyzePapers
    \/ Summarize
    \/ GenerateSpotlight
    \/ GenerateActionItems
    \/ GenerateCommentary

SpecWorkflow == InitScore /\ [][NextWorkflow]_vars

\* _summarize alone, on lists of scored items
MaxScored == 6

ScoredItems ==
    {[id |-> _generate_id("u2"), title |-> TitleNews, summary |-> SummaryText,
      link |-> "u2", source |-> "TechCrunch",
      ai_score |-> JInt(v), ai_reason |-> "why", category |-> c] :
        v \in {7, 9}, c \in {"AWS", "Industry"}}

InitSummarize ==
    /\ pc = "summarize"
    /\ scored \in SeqsUpTo(ScoredItems, MaxScored)
    /\ new_items = <<>>
    /\ news_items = <<>>
    /\ categorized = <<>>
    /\ response = NoResponse
    /\ entry = "test_once"
    /\ runs = 1
    /\ file = {}
    /\ sent_items = {}
    /\ ai_analysis = "None"
    /\ handed = {}
    /\ top_news = <<>>
    /\ effects = {}
    /\ arg = <<>>
    /\ ret = "None"
    /\ answers = <<>>

NextSummarize == Summarize

SpecSummarize == InitSummarize /\ [][NextSummarize]_vars

\* _enhance_and_translate alone, on lists of one batch and more
MaxBatches == 2

\* lists that fill k - 1 batches and put two items in the last one, made
\* in turn of an English item with a short summary and a Chinese item whose
\* summary is not short
EnhLists ==
    LET ScoredEn ==
            [id |-> _generate_id("u2"), title |-> TitleNews, summary |-> SummaryText,
             link |-> "u2", source |-> "TechCrunch",
             ai_score |-> JInt(7), ai_reason |-> "why", category |-> "Industry"]
        ScoredZh ==
            [id |-> _generate_id("u3"), title |-> <<"U+4E2D", "U+6587">>,
             summary |-> [i \in 1..ShortSummary |-> "U+4E2D"],
             link |-> "u3", source |-> "TechCrunch",
             ai_score |-> JInt(7), ai_reason |-> "why", category |-> "Industry"]
    IN {[j \in 1..((k - 1) * batch_size + 2) |->
            IF j % 2 = 1 THEN ScoredEn ELSE ScoredZh] : k \in 1..MaxBatches}

\* entries of an answer: ids of the first batch, of the second, a negative
\* one, one that is no number, and an entry without id
EnhEntries ==
    {[id |-> i, title_zh |-> ZhTitle, summary_zh |-> ZhSummary] :
        i \in {IdNum(-1), IdNum(0), IdNum(batch_size), IdNaN}}
      \cup {[id |-> IdNum(0), title_zh |-> ZhTitle]}
      \cup {[title_zh |-> ZhTitle]}
EnhResponses ==
    FailKinds \cup {[kind |-> "json", body |-> b] : b \in SeqsUpTo(EnhEntries, MaxResp)}

InitEnhance ==
    /\ pc = "enhance_translate"
    /\ scored \in EnhLists
    /\ new_items = <<>>
    /\ news_items = <<>>
    /\ categorized = <<>>
    /\ response = NoResponse
    /\ entry = "test_once"
    /\ runs = 1
    /\ file = {}
    /\ sent_items = {}
    /\ ai_analysis = "None"
    /\ handed = {}
    /\ top_news = <<>>
    /\ effects = {}
    /\ arg = <<>>
    /\ ret = "None"
    /\ answers = <<>>

SpecEnhance == InitEnhance /\ [][EnhanceAndTranslate(EnhResponses)]_vars

-----------------------------------------------------------------------------
(* Functions studied on their own *)

\* the state around a single call: only pc, arg and ret matter
InitCall(at, args) ==
    /\ pc = at
    /\ arg \in args
    /\ ret = "None"
    /\ answers = <<>>
    /\ new_items = <<>>
    /\ news_items = <<>>
    /\ categorized = <<>>
    /\ scored = <<>>
    /\ response = NoResponse
    /\ entry = "test_once"
    /\ runs = 1
    /\ file = {}
    /\ sent_items = {}
    /\ ai_analysis = "None"
    /\ handed = {}
    /\ top_news = <<>>
    /\ effects = {}

\* longest list handed to _dedup_newsletters
MaxList == 3

TitleWeekly == <<"A","I"," ","W","e","e","k","l","y">>
TitleDigest == <<"d","i","g","e","s","t">>

\* items fetch_all can collect: newsletters of two sources and another item
DedupItems ==
    { MkItem("u1", TitleWeekly, SummaryText, "TechCrunch"),
      MkItem("u2", TitleDigest, SummaryText, "TechCrunch"),
      MkItem("u3", TitleWeekly, SummaryText, "AWS News Blog"),
      MkItem("u4", TitleNews, SummaryText, "TechCrunch") }

InitDedup == InitCall("_dedup_newsletters", SeqsUpTo(DedupItems, MaxList))

\* all_items = self._dedup_newsletters(all_items)
DedupNewsletters ==
    /\ pc = "_dedup_newsletters"
    /\ ret' = _dedup_newsletters(arg)
    /\ pc' = "deduped"
    /\ UNCHANGED <<entry, runs, file, sent_items, new_items, ai_analysis,
                   analysisVars, handed, effects, arg, answers>>

NextDedup == DedupNewsletters

SpecDedup == InitDedup /\ [][NextDedup]_vars

\* longest text handed to needs_translation
MaxText == 4

\* characters outside ASCII are named by their code point: U+4E2D is a
\* CJK letter, U+3002 the CJK full stop
NonAscii == {"U+4E2D", "U+3002"}
Letters == Range(UpperCase) \cup Range(LowerCase) \cup {"U+4E2D"}

\* str.isascii() and str.isalpha() on one character
isascii(c) == c \notin NonAscii
isalpha(c) == c \in Letters

\* needs_translation with the test `>= 0.5`
needs_translation_ge(text) ==
    IF text = <<>> THEN FALSE
    ELSE LET english_chars == Cardinality({i \in 1..Len(text) :
                                             isascii(text[i]) /\ isalpha(text[i])})
             total_chars == Cardinality({i \in 1..Len(text) : isalpha(text[i])})
         IN total_chars > 0 /\ 2 * english_chars >= total_chars

\* needs_translation of _enhance_and_translate and of _translate_news; the
\* quotient of two counts exceeds 0.5 exactly when twice the first exceeds
\* the second
needs_translation(text) ==
    IF text = <<>> THEN FALSE
    ELSE LET english_chars == Cardinality({i \in 1..Len(text) :
                                             isascii(text[i]) /\ isalpha(text[i])})
             total_chars == Cardinality({i \in 1..Len(text) : isalpha(text[i])})
         IN total_chars > 0 /\ 2 * english_chars > total_chars

TextChars == {"a", "Z", "1", "U+4E2D", "U+3002"}

InitTranslate == InitCall("needs_translation", SeqsUpTo(TextChars, MaxText))

\* title_needs_trans = needs_translation(title)
NeedsTranslation ==
    /\ pc = "needs_translation"
    /\ ret' = needs_translation(arg)
    /\ pc' = "gated"
    /\ UNCHANGED <<entry, runs, file, sent_items, new_items, ai_analysis,
                   analysisVars, handed, effects, arg, answers>>

NextTranslate == NeedsTranslation

SpecTranslate == InitTranslate /\ [][NextTranslate]_vars

\* Crawler._filter_corporate_news alone
\* longest list handed to _filter_corporate_news
MaxCorp == 3

\* a retweet, a quote, a bare path, a path with a summary of its own, a
\* path of three words, an item about a CEO and an ordinary item
CorpItems ==
    LET TitleRetweet == <<"R","T"," ","@","a">>
        TitleVia == <<"x"," ","v","i","a"," ","@","b">>
        TitlePath == <<"a","/","b">>
        TitleLongPath == <<"a","/","b"," ","c"," ","d">>
        SummaryCeo == <<"n","e","w"," ","C","E","O">>
    IN { MkItem("u1", TitleRetweet, SummaryText, "TechCrunch"),
         MkItem("u2", TitleVia, SummaryText, "TechCrunch"),
         MkItem("u3", TitlePath, TitlePath, "TechCrunch"),
         MkItem("u4", TitlePath, SummaryText, "TechCrunch"),
         MkItem("u5", TitleLongPath, TitleLongPath, "TechCrunch"),
         MkItem("u6", TitleNews, SummaryCeo, "TechCrunch"),
         MkItem("u2", TitleNews, SummaryText, "TechCrunch") }

InitCorp == InitCall("_filter_corporate_news", SeqsUpTo(CorpItems, MaxCorp))

\* all_items = self._filter_corporate_news(all_items)
FilterCorporateNews ==
    /\ pc = "_filter_corporate_news"
    /\ ret' = _filter_corporate_news(arg)
    /\ pc' = "cleaned"
    /\ UNCHANGED <<entry, runs, file, sent_items, new_items, ai_analysis,
                   analysisVars, handed, effects, arg, answers>>

SpecCorp == InitCorp /\ [][FilterCorporateNews]_vars

\* Mailer.format_news_email: the full list, grouped and ordered
\* longest list handed to the renderer
MaxRender == 3

\* mailer.CONTENT_CATEGORIES, the names in the order of display
DisplayCategories ==
    <<"Agent", "TechDepth", "AWS", "Industry", "ChinesePicks", "Papers">>

chinese_sources ==
    { <<"U+949B", "U+5A92", "U+4F53">>, <<"U+65B0", "U+667A", "U+5143">>,
      <<"3","6","K","r">>, <<"U+673A", "U+5668", "U+4E4B", "U+5FC3">>,
      <<"U+8D22", "U+7ECF">>, <<"2","1","U+4E16", "U+7EAA">> }

\* the characters of the source names and links of the model
TextOf(name) ==
    CASE name = "TechCrunch" -> <<"T","e","c","h","C","r","u","n","c","h">>
      [] name = "36Kr AI" -> <<"3","6","K","r"," ","A","I">>
      [] name = "ArXiv cs.AI" -> <<"A","r","X","i","v"," ","c","s",".","A","I">>
      [] name = "u1" -> <<"u","1">>
      [] name = "u2" -> <<"u","2">>
      [] name = "u3" -> <<"u","3">>
      [] name = "u4" -> <<"u","4">>
      [] name = "u5" -> <<"u","5">>
      [] name = "u6" -> <<"u","6">>

\* the key of grouped_by_category an item is appended under
RenderGroup(item) ==
    IF AnyIn(chinese_sources, TextOf(item.source)) THEN "ChinesePicks"
    ELSE IF \/ Contains(Lower(TextOf(item.source)), <<"a","r","x","i","v">>)
            \/ Contains(Lower(TextOf(item.link)), <<"a","r","x","i","v">>)
         THEN "Papers"
         ELSE IF "category" \in DOMAIN item THEN item.category ELSE DefaultCategory

\* x.get('ai_score', 0)
ScoreOrZero(item) == IF "ai_score" \in DOMAIN item THEN item.ai_score.v ELSE 0

RECURSIVE SortedCategory(_)
\* sorted(cat_items, key=lambda x: x.get('ai_score', 0), reverse=True)
SortedCategory(items) ==
    IF items = <<>> THEN <<>>
    ELSE LET m == CHOOSE i \in 1..Len(items) :
                    /\ \A k \in 1..Len(items) : ScoreOrZero(items[k]) <= ScoreOrZero(items[i])
                    /\ \A k \in 1..(i - 1) : ScoreOrZero(items[k]) < ScoreOrZero(items[i])
             rest == [k \in 1..(Len(items) - 1) |->
                         IF k < m THEN items[k] ELSE items[k + 1]]
         IN <<items[m]>> \o SortedCategory(rest)

\* the cards of the full list, in the order of the page: the loop over
\* CONTENT_CATEGORIES, each group sorted
format_news_email(items) ==
    LET Cards(k) ==
            SortedCategory(SelectSeq(items,
                LAMBDA it : RenderGroup(it) = DisplayCategories[k]))
    IN Cards(1) \o Cards(2) \o Cards(3) \o Cards(4) \o Cards(5) \o Cards(6)

\* items the renderer can be handed: analysed items of listed categories,
\* one whose category the classification made up, one from a Chinese
\* source, a paper, and an item that was not analysed
RenderItems ==
    LET MkRender(link, source, score, category) ==
            SetKey(SetKey(MkItem(link, TitleNews, SummaryText, source),
                          "ai_score", JInt(score)),
                   "category", category)
    IN { MkRender("u1", "TechCrunch", 7, "Industry"),
         MkRender("u2", "TechCrunch", 9, "Agent"),
         MkRender("u3", "TechCrunch", 9, "Agent"),
         MkRender("u4", "TechCrunch", 8, "Other"),
         MkRender("u5", "36Kr AI", 9, "Agent"),
         MkRender("u6", "ArXiv cs.AI", 7, "TechDepth"),
         MkItem("u2", TitleNews, SummaryText, "TechCrunch") }

InitRender == InitCall("format_news_email", SeqsUpTo(RenderItems, MaxRender))

\* html_content = mailer.format_news_email(new_items, ai_analysis)
FormatNewsEmail ==
    /\ pc = "format_news_email"
    /\ ret' = format_news_email(arg)
    /\ pc' = "rendered"
    /\ UNCHANGED <<entry, runs, file, sent_items, new_items, ai_analysis,
                   analysisVars, handed, effects, arg, answers>>

SpecRender == InitRender /\ [][FormatNewsEmail]_vars

-----------------------------------------------------------------------------
(* Properties of the analysis stages *)

\* the scorer has returned
ScoreDone == pc = "enhance_translate"
\* the filter has returned and the scorer has not started
FilterDone == pc = "score"

DistinctIds(items) ==
    \A i, j \in 1..Len(items) : items[i].id = items[j].id => i = j

\* the index at which analyze() received the item
OrigIndex(it) == CHOOSE i \in 0..(Len(new_items) - 1) : new_items[i + 1].id = it.id

\* every id of a parsed scoring answer is an index of the scorer's input
IdsInRange(resp, items) ==
    /\ resp.kind = "json"
    /\ \A j \in 1..Len(resp.body) :
         /\ "id" \in DOMAIN resp.body[j]
         /\ ~IntRaises(resp.body[j].id)
         /\ Int_(resp.body[j].id) \in 0..(Len(items) - 1)

\* C1: every item of the scored output whose source is a key of
\* SOURCE_CATEGORY_MAP carries the category the table gives for that source.
C1_ForcedCategory ==
    ScoreDone =>
        \A j \in 1..Len(scored) :
            scored[j].source \in DOMAIN SOURCE_CATEGORY_MAP
                => scored[j].category = SOURCE_CATEGORY_MAP[scored[j].source]

\* C2: an item that survives the filter, whose source is not forced and
\* whose title hits no keyword group, ends with the category under which
\* the classification answer listed that same item, whatever the filter
\* removed.  Stated for lists of distinct items and for scoring answers
\* whose ids are indices of the scorer's input.
C2_ListedCategory ==
    (ScoreDone /\ DistinctIds(new_items) /\ IdsInRange(response, news_items)) =>
        \A j \in 1..Len(scored) :
            LET it == scored[j]
                key == IdNum(OrigIndex(it))
            IN (/\ it.source \notin DOMAIN SOURCE_CATEGORY_MAP
                /\ MatchedCategory(it.title) = "None"
                /\ key \in DOMAIN categorized)
                   => it.category = categorized[key]

\* C3: every item of the final list carries a category of the closed set.
C3_ClosedCategory ==
    ScoreDone =>
        \A j \in 1..Len(scored) : scored[j].category \in CONTENT_CATEGORIES

\* a parsed scoring answer whose entries all have a numeric id and a score
WellFormed(resp) ==
    /\ resp.kind = "json"
    /\ \A j \in 1..Len(resp.body) :
         /\ {"id", "score"} \subseteq DOMAIN resp.body[j]
         /\ ~IntRaises(resp.body[j].id)

\* the indices of the scorer's input that some entry of the answer names
AnsweredIndices(resp, items) ==
    {i \in 0..(Len(items) - 1) :
        \E j \in 1..Len(resp.body) :
            Int_(resp.body[j].id) \in {i, i - Len(items)}}

\* C4: an item of the scorer's input that a well-formed scoring answer does
\* not name is in the scorer's output with score 5 and an empty reason.
C4_UnmatchedDefaulted ==
    (ScoreDone /\ WellFormed(response)) =>
        \A i \in (0..(Len(news_items) - 1)) \ AnsweredIndices(response, news_items) :
            \E j \in 1..Len(scored) :
                /\ scored[j].id = news_items[i + 1].id
                /\ scored[j].ai_score = JInt(5)
                /\ scored[j].ai_reason = ""

\* no JSON array, invalid JSON, or an entry without id or without score
Malformed(resp) ==
    \/ resp.kind \in {"text", "invalid"}
    \/ /\ resp.kind = "json"
       /\ \E j \in 1..Len(resp.body) :
            ~({"id", "score"} \subseteq DOMAIN resp.body[j])

\* the scorer's output holds every input item once, in input order, with
\* score 5 and an empty reason
AllDefaulted ==
    /\ Len(scored) = Len(news_items)
    /\ \A j \in 1..Len(scored) :
         /\ scored[j].id = news_items[j].id
         /\ scored[j].title = news_items[j].title
         /\ scored[j].source = news_items[j].source
         /\ scored[j].ai_score = JInt(5)
         /\ scored[j].ai_reason = ""

\* C5: on a malformed scoring answer the output is every input item once,
\* in input order, with score 5 and an empty reason.
C5_FallbackComplete == (ScoreDone /\ Malformed(response)) => AllDefaulted

\* C6: every score of the scorer's output is an integer in 1..10.
C6_ScoreInRange ==
    ScoreDone =>
        \A j \in 1..Len(scored) :
            scored[j].ai_score.t = "int" /\ scored[j].ai_score.v \in 1..10

\* no JSON object, invalid JSON, or an object without relevant_ids
Unparsable(resp) ==
    \/ resp.kind \in {"text", "invalid"}
    \/ resp.kind = "json" /\ "relevant_ids" \notin DOMAIN resp.body

\* C7: when the relevance answer is not of the expected shape, every item
\* submitted for checking is in the filter's output.
C7_FailOpen ==
    (FilterDone /\ Unparsable(response)) =>
        \A i \in ItemsToCheck(new_items) : new_items[i + 1] \in Range(news_items)

-----------------------------------------------------------------------------
(* Properties of the runs *)

\* ingestion has returned its list
Ingested == pc = "analyze"
\* the run is over, normally or by an exception leaving it
RunOver == pc \in {"done", "crashed"}

ItemIds(items) == {items[j].id : j \in 1..Len(items)}

\* C9: once an item was in a list whose send succeeded, its id is in the
\* persisted set when that run is over, and no later ingestion returns it.
C9_SentStaysSent ==
    /\ RunOver => handed \subseteq file
    /\ Ingested => ItemIds(new_items) \cap handed = {}

\* C10: the list fetch_all returns never holds two items with the same id.
C10_NoDuplicateIds == Ingested => DistinctIds(new_items)

\* number of positions of s that hold x
Count(s, x) == Cardinality({i \in 1..Len(s) : s[i] = x})

\* _dedup_newsletters has returned
Deduped == pc = "deduped"

\* the first newsletter of the source among the items
FirstRollup(items, src) ==
    CHOOSE i \in 1..Len(items) :
        /\ IsNewsletter(items[i]) /\ items[i].source = src
        /\ \A k \in 1..(i - 1) : ~(IsNewsletter(items[k]) /\ items[k].source = src)

C12_MarkOnlyAfterSend ==
    /\ [][file' /= file => (pc = "mark" /\ "send_ok" \in effects)]_vars
    /\ [][("send_failed" \in effects /\ runs' = runs) => file' = file]_vars

\* a later run whose send failed ended with the persisted set an earlier
\* run had written
C12_Witness ==
    /\ pc = "done"
    /\ "send_failed" \in effects
    /\ file /= {}
    /\ sent_items = file
    /\ new_items /= <<>>

\* C13: an id of the persisted set is in the persisted set ever after.
C13_AppendOnly == [][file \subseteq file']_vars

\* C14: a run whose ingestion returned no item goes from the test
\* `if new_items` to its end without any side effect: nothing sent,
\* archived or indexed, and the persisted set as it was.
C14_EmptyRunNoEffect ==
    [][(pc = "send" /\ new_items = <<>>) =>
          (/\ pc' = "done"
           /\ effects' = {}
           /\ file' = file
           /\ sent_items' = sent_items
           /\ handed' = handed)]_vars

\* a second run found everything already sent and ended without effect
C14_Witness ==
    /\ pc = "done"
    /\ new_items = <<>>
    /\ runs = 2
    /\ file /= {}
    /\ sent_items = file
    /\ effects = {}

\* C15: no stage ends by an exception leaving it.
C15_NoStageRaises == pc /= "raised"

\* analyze() went through its last node
AnalyzeDone == pc = "END"

\* C16: the final list holds each item the filter let through exactly
\* once.  Stated for filter outputs of distinct items.
C16_EachItemOnce ==
    (AnalyzeDone /\ DistinctIds(news_items)) =>
        \A i \in 1..Len(news_items) :
            Cardinality({j \in 1..Len(scored) : scored[j].id = news_items[i].id}) = 1

\* the order of the stages as the claim states it
ClaimedOrder == <<"filter", "categorize", "score", "enhance_translate", "summarize">>
ClaimedPos(stage) == CHOOSE i \in 1..Len(ClaimedOrder) : ClaimedOrder[i] = stage

\* C17: every step from one stage to another goes forward in the order
\* filter, classification, scoring, enrichment, ranking.
C17_StageOrder ==
    [][(/\ pc' /= pc
        /\ pc \in Range(ClaimedOrder)
        /\ pc' \in Range(ClaimedOrder)) => ClaimedPos(pc) < ClaimedPos(pc')]_vars

\* _summarize has returned
Summarized == pc \in {"spotlight", "action_items", "commentary", "END"}

\* the parsed scoring answer names every item of the list exactly once
NamesEachOnce(resp, items) ==
    /\ resp.kind = "json"
    /\ Len(resp.body) = Len(items)
    /\ \A i \in 0..(Len(items) - 1) :
         \E j \in 1..Len(resp.body) : resp.body[j].id = IdNum(i)

\* the position of the item in the list the scorer received
IngestIndex(it) == CHOOSE i \in 1..Len(news_items) : news_items[i].id = it.id

\* C18: the ranking is by score, descending, and items of equal score are
\* in the order of ingestion, whatever order the scoring answer listed
\* them in.  Stated for lists short enough to be ranked whole.
C18_StableRank ==
    (/\ Summarized
     /\ Len(news_items) <= TopCount
     /\ DistinctIds(news_items)
     /\ NamesEachOnce(response, news_items)) =>
        \A j, k \in 1..Len(top_news) :
            j < k =>
                /\ top_news[j].ai_score.v >= top_news[k].ai_score.v
                /\ top_news[j].ai_score.v = top_news[k].ai_score.v
                      => IngestIndex(top_news[j]) < IngestIndex(top_news[k])

\* C19: top_news has min(TopCount, n) of the n scored items, and no item
\* left out has a higher score than an item in it, whatever the categories.
C19_TopAcrossCategories ==
    Summarized =>
        /\ Len(top_news) = Min(TopCount, Len(scored))
        /\ \A x \in Range(top_news) : Count(top_news, x) <= Count(scored, x)
        /\ \A x \in Range(scored), y \in Range(top_news) :
              Count(scored, x) > Count(top_news, x) => x.ai_score.v <= y.ai_score.v

\* more items than top_news holds, the best of them last in the list, and
\* top_news mixing two categories
C19_Witness ==
    /\ Summarized
    /\ Len(scored) > TopCount
    /\ Len(top_news) = TopCount
    /\ scored[Len(scored)].ai_score.v > scored[1].ai_score.v
    /\ top_news[1] = scored[Len(scored)]
    /\ \E j, k \in 1..Len(top_news) : top_news[j].category /= top_news[k].category

\* needs_translation has returned
Gated == pc = "gated"

AlphaCount(t) == Cardinality({i \in 1..Len(t) : isalpha(t[i])})
AsciiAlphaCount(t) == Cardinality({i \in 1..Len(t) : isascii(t[i]) /\ isalpha(t[i])})

\* C20: a text is marked for translation exactly when it has a letter and
\* its ASCII letters are more than half of its letters; the empty text and
\* a text at exactly one half are not marked.
C20_TranslationGate ==
    Gated =>
        /\ ret = (/\ AlphaCount(arg) >= 1
                  /\ 2 * AsciiAlphaCount(arg) > AlphaCount(arg))
        /\ arg = <<>> => ret = FALSE
        /\ (AlphaCount(arg) >= 1 /\ 2 * AsciiAlphaCount(arg) = AlphaCount(arg))
              => ret = FALSE

\* a text whose letters are half ASCII was not marked
C20_Witness ==
    /\ Gated
    /\ AlphaCount(arg) >= 2
    /\ 2 * AsciiAlphaCount(arg) = AlphaCount(arg)
    /\ ret = FALSE

-----------------------------------------------------------------------------
(* Properties of the keyword category, the filter's output and the
   enrichment stage *)

\* C21: an item of the scored output whose source is not in the forced
\* table and whose lower-cased title has a keyword of some group carries
\* the category of the first such group in the order Agent, TechDepth, AWS,
\* whatever the classification answered.
C21_KeywordCategory ==
    ScoreDone =>
        \A j \in 1..Len(scored) :
            (/\ scored[j].source \notin DOMAIN SOURCE_CATEGORY_MAP
             /\ MatchedCategory(scored[j].title) /= "None")
                => scored[j].category = MatchedCategory(scored[j].title)

\* a parsed relevance answer whose relevant_ids are all numbers
WellFormedRelevance(resp) ==
    /\ resp.kind = "json"
    /\ "relevant_ids" \in DOMAIN resp.body
    /\ \A x \in resp.body.relevant_ids : ~IntRaises(x)

\* the indices of the input the claim keeps: the allowlisted ones and the
\* listed ones that are indices of the input
ClaimedKept(items, resp) ==
    ProtectedItems(items)
      \cup ({Int_(x) : x \in resp.body.relevant_ids} \cap 0..(Len(items) - 1))

\* C22: on a well-formed relevance answer the filter returns, and its
\* output is the input restricted to the allowlisted items and the items
\* listed as relevant, each once and in the input's order, also when the
\* answer lists negative or out-of-range ids.
C22_FilterSubsequence ==
    (pc \in {"score", "raised"} /\ WellFormedRelevance(response)) =>
        /\ pc = "score"
        /\ LET order == SortedSeq(ClaimedKept(new_items, response))
           IN news_items = [j \in 1..Len(order) |-> new_items[order[j] + 1]]

\* the step of the enrichment stage
Enhanced == pc = "enhance_translate" /\ pc' = "label_and_oneliner"

\* the positions of the list that batch b holds
BatchItems(b, n) == {i \in 1..n : (i - 1) \div batch_size = b - 1}

\* the call of a batch failed: no answer, an answer that does not parse, or
\* an answer one of whose entries makes the loop raise
BatchFailed(resp, n) ==
    \/ resp.kind \in {"error", "invalid"}
    \/ /\ resp.kind = "json"
       /\ \E j \in 1..Len(resp.body) : EnhEntryRaises(resp.body[j], n)

\* a parsed answer all of whose entries name items of batch b
NamesOwnBatch(resp, b, n) ==
    /\ resp.kind = "json"
    /\ \A j \in 1..Len(resp.body) :
         /\ ~EnhEntryRaises(resp.body[j], n)
         /\ Int_(resp.body[j].id) + 1 \in BatchItems(b, n)

\* C23: when the call of one batch fails and every other batch gets a
\* parsed answer about its own items, the items of the failed batch leave
\* the stage as they entered it and the items of the other batches are as
\* their own answer makes them.
C23_BatchFailureIsolated ==
    [][Enhanced =>
        \A b \in 1..Len(answers') :
            (/\ BatchFailed(answers'[b], Len(scored))
             /\ \A c \in 1..Len(answers') :
                   c /= b => NamesOwnBatch(answers'[c], c, Len(scored))) =>
                /\ \A i \in BatchItems(b, Len(scored)) : scored'[i] = scored[i]
                /\ \A c \in 1..Len(answers') : \A i \in BatchItems(c, Len(scored)) :
                      c /= b => scored'[i] = EnhBatch(scored, answers'[c])[i]]_vars

\* C24: after the stage, a non-empty title that is not marked for
\* translation is in title_zh unchanged, and likewise a summary in
\* summary_zh.
C24_UntranslatedCopied ==
    [][Enhanced =>
        \A i \in 1..Len(scored) :
            /\ (scored[i].title /= <<>> /\ ~needs_translation(scored[i].title)) =>
                  /\ "title_zh" \in DOMAIN scored'[i]
                  /\ scored'[i].title_zh = scored[i].title
            /\ (scored[i].summary /= <<>> /\ ~needs_translation(scored[i].summary)) =>
                  /\ "summary_zh" \in DOMAIN scored'[i]
                  /\ scored'[i].summary_zh = scored[i].summary]_vars

\* a parsed answer none of whose entries makes the loop raise
ParsedWhole(resp, n) ==
    /\ resp.kind = "json"
    /\ \A j \in 1..Len(resp.body) : ~EnhEntryRaises(resp.body[j], n)

\* C28: when one batch gets a parsed answer and no other batch gets any,
\* the items outside that batch leave the stage as they entered it,
\* whatever ids the answer names.
C28_BatchFrame ==
    [][Enhanced =>
        \A b \in 1..Len(answers') :
            (/\ ParsedWhole(answers'[b], Len(scored))
             /\ \A c \in 1..Len(answers') : c /= b => answers'[c].kind = "error") =>
                \A i \in 1..Len(scored) :
                    i \notin BatchItems(b, Len(scored)) => scored'[i] = scored[i]]_vars

\* the renderer has returned
Rendered == pc = "rendered"

\* the position of a card's group in the order of display
GroupPos(item) ==
    CHOOSE k \in 1..Len(DisplayCategories) : DisplayCategories[k] = RenderGroup(item)

\* the position of an item in the list handed over
HandedIndex(it) == CHOOSE i \in 1..Len(arg) : arg[i] = it

\* C25: the full list has every item handed to the renderer exactly as
\* often as it was handed over, whatever its category; the cards are in
\* the order of the category list, within a category by score descending,
\* and equal scores in the order handed over.
C25_FullListPermutation ==
    Rendered =>
        /\ \A x \in Range(arg) \cup Range(ret) : Count(ret, x) = Count(arg, x)
        /\ \A j, k \in 1..Len(ret) :
              j < k =>
                /\ GroupPos(ret[j]) <= GroupPos(ret[k])
                /\ GroupPos(ret[j]) = GroupPos(ret[k])
                      => ScoreOrZero(ret[j]) >= ScoreOrZero(ret[k])
                /\ (/\ GroupPos(ret[j]) = GroupPos(ret[k])
                    /\ ScoreOrZero(ret[j]) = ScoreOrZero(ret[k])
                    /\ DistinctIds(arg))
                      => HandedIndex(ret[j]) < HandedIndex(ret[k])

\* _filter_corporate_news has returned
Cleaned == pc = "cleaned"

\* the title has a quote or retweet marker, in any case of the letters
HasMarker(it) ==
    \E m \in { <<"q","u","o","t","i","n","g"," ">>, <<"v","i","a"," ","@">>,
                <<"r","t"," ","@">> } : Contains(Lower(it.title), m)

\* the title is the summary and looks like a bare repository path
BarePath(it) ==
    /\ it.title = it.summary
    /\ Contains(it.title, <<"/">>)
    /\ WordCount(it.title) <= 2

\* a corporate keyword is in the lower-cased title and summary
Corporate(it) ==
    AnyIn(corporate_keywords, Lower(it.title) \o <<" ">> \o Lower(it.summary))

\* neither junk nor corporate
Plain(it) == ~HasMarker(it) /\ ~BarePath(it) /\ ~Corporate(it)

\* C26: the low-value filter returns no item whose title has a quote or
\* retweet marker and none whose title is a bare path equal to its summary,
\* and it returns in input order every item that is neither junk nor
\* corporate news.
C26_LowValueFilter ==
    Cleaned =>
        /\ \A j \in 1..Len(ret) : ~HasMarker(ret[j]) /\ ~BarePath(ret[j])
        /\ SelectSeq(ret, Plain) = SelectSeq(arg, Plain)
        /\ \A x \in Range(ret) : Count(ret, x) <= Count(arg, x)

\* a retweet between two different ordinary items was removed and the two
\* are returned in their order
C26_Witness ==
    /\ Cleaned
    /\ Len(arg) = 3
    /\ HasMarker(arg[2])
    /\ Plain(arg[1]) /\ Plain(arg[3])
    /\ arg[1] /= arg[3]
    /\ ret = <<arg[1], arg[3]>>

-----------------------------------------------------------------------------
(* Properties of what a run sends and marks *)

\* the current run has sent its list
SentOk == "send_ok" \in effects

\* C27: in a run whose analysis returned, every item of the list sent is in
\* the output of the relevance filter, also when that output is empty.
C27_RemovedNotSent ==
    (SentOk /\ ai_analysis = "present") =>
        ItemIds(new_items) \subseteq ItemIds(news_items)

\* C29: a run whose analysis raised and whose send succeeded ends normally
\* with the ids of the items it sent in the file.
C29_FailedAnalysisRunCompletes ==
    (RunOver /\ SentOk /\ "analysis_failed" \in effects) =>
        /\ pc = "done"
        /\ ai_analysis = "None"
        /\ "mark_sent" \in effects
        /\ ItemIds(new_items) \subseteq file

====
